---- MODULE Spec2Model ----
(***************************************************************************)
(* Model of the Arogya wellness backend: the orchestration pipeline        *)
(* (services/orchestrator.py), the request handlers that start it (app.py) *)
(* and the collaborators it calls (credential pool, conversation memory,   *)
(* agents, history store); and the registration of users (register in      *)
(* app.py, services/user_auth_store.py).                                   *)
(*                                                                         *)
(* Text is a sequence of symbols.  A symbol is one character class or one  *)
(* complete JSON value:                                                    *)
(*   " "     one whitespace character                                      *)
(*   "FENCE" three backtick characters, a code fence marker                *)
(*   "a"     one ASCII letter that is not part of a JSON literal           *)
(*   "x"     one other character (punctuation that starts no JSON value)   *)
(*   "OBJ"   the text of a JSON object with both expected fields           *)
(*   "OBJG"  the text of a JSON object with synthesized_guidance only      *)
(*   "OBJ0"  the text {}                                                   *)
(*   "LIST"  the text of a JSON array                                      *)
(*   "STR"   the text of a JSON string                                     *)
(*   "NUM"   the text of a JSON number (digits)                            *)
(*   "NULL"  the text null (four letters)                                  *)
(***************************************************************************)
EXTENDS Integers, Sequences, FiniteSets, TLC

\* ------------------------------------------------------------------------
\* Bounds of the model
\* ------------------------------------------------------------------------
NumKeys == 2
NumRuns == 2
MaxRequests == 2
MaxTextLen == 4
MaxOutLen == 2
MaxRegistrations == 3

Keys == 1..NumKeys
Runs == 1..NumRuns
Users == {"u1", "guest"}

\* ------------------------------------------------------------------------
\* Text helpers (str.strip, re.sub, str.join)
\* ------------------------------------------------------------------------
Ws == {" ", "\n"}
Letters == {"a", "NULL"}
Fence == "FENCE"

Range(s) == {s[i] : i \in 1..Len(s)}

\* number of leading symbols of s that are in S
LeadCount(s, S) ==
    CHOOSE k \in 0..Len(s) :
        /\ \A i \in 1..k : s[i] \in S
        /\ (k = Len(s) \/ s[k + 1] \notin S)

\* number of trailing symbols of s that are in S
TrailCount(s, S) ==
    CHOOSE k \in 0..Len(s) :
        /\ \A i \in (Len(s) - k + 1)..Len(s) : s[i] \in S
        /\ (k = Len(s) \/ s[Len(s) - k] \notin S)

DropLead(s, S) == SubSeq(s, LeadCount(s, S) + 1, Len(s))
DropTrail(s, S) == SubSeq(s, 1, Len(s) - TrailCount(s, S))

\* str.strip()
Strip(s) == DropTrail(DropLead(s, Ws), Ws)

\* raw.startswith(FENCE)
StartsWithFence(s) == Len(s) >= 1 /\ s[1] = Fence
EndsWithFence(s) == Len(s) >= 1 /\ s[Len(s)] = Fence

\* SubLeadingFence that leaves the language tag in the text
SubLeadingFenceKeepTag(s) == DropLead(SubSeq(s, 2, Len(s)), Ws)

\* re.sub of the pattern  ^ FENCE [a-zA-Z]* \s*  on a text that starts with a
\* fence: the fence, the letters after it, the whitespace after those
SubLeadingFence(s) == DropLead(DropLead(SubSeq(s, 2, Len(s)), Letters), Ws)

\* re.sub of the pattern  \s* FENCE $ : the fence that ends the text and the
\* whitespace run right before it
SubTrailingFence(s) ==
    IF EndsWithFence(s) THEN DropTrail(SubSeq(s, 1, Len(s) - 1), Ws) ELSE s

\* the raw text after strip() and fence removal
CleanRaw(content) ==
    LET raw == Strip(content) IN
    IF StartsWithFence(raw) THEN SubTrailingFence(SubLeadingFence(raw)) ELSE raw

\* ------------------------------------------------------------------------
\* json.loads
\* ------------------------------------------------------------------------
GuidanceText == <<"x", "a">>
RecList == <<"R1", "R2">>
NoFields == [k \in {} |-> <<>>]

JsonAtoms == {"OBJ", "OBJG", "OBJ0", "LIST", "STR", "NUM", "NULL"}

AtomValue(a) ==
    CASE a = "OBJ"  -> [kind |-> "dict",
                        val |-> [synthesized_guidance |-> GuidanceText,
                                 recommendations |-> RecList]]
      [] a = "OBJG" -> [kind |-> "dict",
                        val |-> [synthesized_guidance |-> GuidanceText]]
      [] a = "OBJ0" -> [kind |-> "dict", val |-> NoFields]
      [] a = "LIST" -> [kind |-> "list", val |-> NoFields]
      [] a = "STR"  -> [kind |-> "str", val |-> NoFields]
      [] a = "NUM"  -> [kind |-> "int", val |-> NoFields]
      [] a = "NULL" -> [kind |-> "NoneType", val |-> NoFields]

JSONDecodeError == [kind |-> "JSONDecodeError", val |-> NoFields]

\* json.loads(raw): one JSON value, with optional whitespace around it;
\* anything else raises JSONDecodeError.  Adjacent digits are one number.
json_loads(raw) ==
    LET t == Strip(raw) IN
    IF Len(t) = 1 /\ t[1] \in JsonAtoms THEN AtomValue(t[1])
    ELSE IF Len(t) > 1 /\ Range(t) = {"NUM"} THEN AtomValue("NUM")
    ELSE JSONDecodeError

\* ParseData whose fallback drops the raw text
ParseDataEmptyFallback(raw) ==
    IF json_loads(raw).kind = "JSONDecodeError"
    THEN [kind |-> "dict",
          val |-> [synthesized_guidance |-> <<>>, recommendations |-> <<>>]]
    ELSE json_loads(raw)

\* the try/except around json.loads
ParseData(raw) ==
    IF json_loads(raw).kind = "JSONDecodeError"
    THEN [kind |-> "dict",
          val |-> [synthesized_guidance |-> raw, recommendations |-> <<>>]]
    ELSE json_loads(raw)

\* dict.get(key, default)
DictGet(d, key, default) == IF key \in DOMAIN d THEN d[key] ELSE default

\* ------------------------------------------------------------------------
\* _build_markdown_table
\* ------------------------------------------------------------------------
\* Python None, where a text is expected (no text equals it)
None == <<"None">>

Falsy(text) == text = <<>> \/ text = None

\* add_block: one blank entry before every block but the first, the
\* heading, the stripped text
add_block(parts, title, text) ==
    IF Falsy(text) THEN parts
    ELSE (IF parts # <<>> THEN Append(parts, <<>>) ELSE parts)
             \o << <<title>>, Strip(text) >>

BuildParts(output) ==
    add_block(
      add_block(
        add_block(
          add_block(<<>>, "**Symptom agent**", output.symptom_analysis),
          "**Lifestyle agent**", output.lifestyle),
        "**Diet agent**", output.diet),
      "**Fitness agent**", output.fitness)

\* "\n".join(parts)
RECURSIVE Join(_)
Join(parts) ==
    IF parts = <<>> THEN <<>>
    ELSE IF Len(parts) = 1 THEN parts[1]
    ELSE parts[1] \o <<"\n">> \o Join(Tail(parts))

_build_markdown_table(output) == Join(BuildParts(output))

\* ------------------------------------------------------------------------
\* orchestrate, lines 126-155: from the synthesizer's answer to the output
\* ------------------------------------------------------------------------
AttributeError == [error |-> "AttributeError"]

OutputFields(user_id, symptoms, results, data) ==
    [user_id |-> user_id,
     query |-> symptoms,
     symptom_analysis |-> results.symptom,
     lifestyle |-> results.lifestyle,
     diet |-> results.diet,
     fitness |-> results.fitness,
     synthesized_guidance |-> DictGet(data.val, "synthesized_guidance", <<>>),
     recommendations |-> DictGet(data.val, "recommendations", <<>>)]

WithTable(output) ==
    [user_id |-> output.user_id,
     query |-> output.query,
     symptom_analysis |-> output.symptom_analysis,
     lifestyle |-> output.lifestyle,
     diet |-> output.diet,
     fitness |-> output.fitness,
     synthesized_guidance |-> output.synthesized_guidance,
     recommendations |-> output.recommendations,
     table_markdown |-> _build_markdown_table(output)]

\* data.get exists on a dict only: every other parsed value raises
BuildOutput(user_id, symptoms, results, content) ==
    LET data == ParseData(CleanRaw(content)) IN
    IF data.kind = "dict"
    THEN WithTable(OutputFields(user_id, symptoms, results, data))
    ELSE AttributeError

IsError(v) == "error" \in DOMAIN v

\* ------------------------------------------------------------------------
\* Credential pool (services/api_key_pool): an ordered sequence of keys, a
\* rotation cursor and the set of exhausted keys
\* ------------------------------------------------------------------------
PoolExhausted == [error |-> "PoolExhausted"]

\* the key d places after the cursor, cyclically
Candidate(cur, d) == ((cur - 1 + d) % NumKeys) + 1

\* acquire: the first key at or after the cursor that is not exhausted; the
\* cursor moves past it.  Fails when every key is exhausted.
get_next_key(cur, exh) ==
    IF Keys \subseteq exh THEN PoolExhausted
    ELSE LET d == CHOOSE d \in 0..(NumKeys - 1) :
                      /\ Candidate(cur, d) \notin exh
                      /\ \A e \in 0..(d - 1) : Candidate(cur, e) \in exh
         IN [key |-> Candidate(cur, d), cursor |-> Candidate(cur, d + 1)]

\* mark_key_quota_exceeded that keeps the marked key only
mark_key_forgets_others(exh, key) == {key}

\* markExhausted: idempotent, sticky
mark_key_quota_exceeded(exh, key) == exh \cup {key}

\* ------------------------------------------------------------------------
\* Conversation memory (services/memory): one process-wide context
\* ------------------------------------------------------------------------
reset_memory(mem) == <<>>

\* the turn an agent records after its call returned; by is the request that
\* wrote it (not part of the stored turn's text)
Turn(agent, content, by) == [agent |-> agent, content |-> content, by |-> by]

save_turn(mem, agent, content, by) == Append(mem, Turn(agent, content, by))

\* ------------------------------------------------------------------------
\* History store (services/history_store)
\* ------------------------------------------------------------------------
save_history(log, user_id, output) ==
    [log EXCEPT ![user_id] = Append(@, output)]

get_history(log, user_id) == log[user_id]

\* ------------------------------------------------------------------------
\* Requests (app.py)
\* ------------------------------------------------------------------------
\* a field that the request body does not have
Absent == <<"Absent">>

HealthKeywords == {"fever", "cough"}

\* _is_health_query that lets every text pass
_is_health_query_any(text) == TRUE

\* _is_health_query: some health keyword occurs in the text
_is_health_query(text) ==
    /\ text # <<>>
    /\ \E i \in 1..Len(text) : text[i] \in HealthKeywords

SymptomInputs == {Absent, <<>>, <<" ">>, <<"a">>}

\* request bodies: without a usable query, and with one
RequestData ==
    [symptoms : SymptomInputs, medical_report : {Absent}, user_id : {"absent"}]
    \cup {[symptoms |-> <<" ", "fever">>, medical_report |-> Absent,
            user_id |-> "absent"],
           [symptoms |-> <<" ", "fever">>, medical_report |-> <<"r">>,
            user_id |-> "u1"]}

\* data.get(key, default)
FieldOr(value, default) == IF value = Absent THEN default ELSE value
UserOr(value, default) == IF value = "absent" THEN default ELSE value

\* the text an agent call returns: a text of its own for every call
AgentText(agent, by) == <<agent \o "#" \o ToString(by)>>

\* the texts a successful synthesizer call returns
SynthTexts == {<<"OBJ">>, <<" ", "x", "a">>, <<"LIST">>}

\* the status of the response: the two registered error handlers and the
\* handlers' own returns set theirs, a result is sent with 200, any other
\* exception leaves the handler and the server answers 500
ResponseStatus(o) ==
    IF "status" \in DOMAIN o THEN o.status
    ELSE IF "error" \in DOMAIN o THEN 500
    ELSE 200

\* ------------------------------------------------------------------------
\* User store (services/user_auth_store.py): storage/users.json
\* ------------------------------------------------------------------------
\* The file is missing, or it has bytes.  state is what json.load makes of
\* the bytes: "empty" (opened for writing, nothing written yet), "list" (the
\* text of a list of users), "garbage" (the text of one list followed by the
\* rest of a longer one).  size is the number of bytes, counted in entries:
\* the names and the passwords here are of one length each.
NoFile == [state |-> "missing", users |-> <<>>, size |-> 0]

UserNames == {<<"amy">>, <<"bob">>}
NoRegArgs == [username |-> <<>>, password |-> <<>>]

\* the bodies of the registration requests
RegisterData ==
    [username : {Absent, <<" ">>, <<"amy">>, <<" ", "amy">>, <<"bob">>},
     password : {Absent, <<"p">>, <<"q", " ">>}]

LoadError == [error |-> "JSONDecodeError"]

\* _load_users: the empty list if the file is missing, else json.load
_load_users(file) ==
    IF file.state = "missing" THEN [users |-> <<>>]
    ELSE IF file.state = "list" THEN [users |-> file.users]
    ELSE LoadError

\* any(u.get("username") == username for u in users)
HasUser(users, username) ==
    \E i \in 1..Len(users) : users[i].username = username

\* open(FILE, "w"): the file exists and is empty
OpenForWriting(file) == [state |-> "empty", users |-> <<>>, size |-> 0]

\* json.dump and the close of the file: the text goes to the start of the
\* file, over the bytes another writer put there since the file was opened;
\* what that writer wrote beyond the end of this text stays
Dump(file, users) ==
    IF file.size <= Len(users)
    THEN [state |-> "list", users |-> users, size |-> Len(users)]
    ELSE [state |-> "garbage", users |-> <<>>, size |-> file.size]

\* ------------------------------------------------------------------------
\* State
\* ------------------------------------------------------------------------
VARIABLES
    exhausted,      \* pool: the keys marked exhausted
    cursor,         \* pool: the rotation cursor
    memory,         \* the shared conversation memory
    historyLog,     \* user_id -> sequence of session records
    nreq,           \* requests received so far
    pc,             \* per handler thread: where it stands
    args,           \* per thread: orchestrate's arguments
    results,        \* per thread: the four stage results so far
    history,        \* per thread: the chat history read for the synthesizer
    synth_llm,      \* per thread: the api key of the current synthesizer llm (0: none)
    synth_key,      \* per thread: the key returned with that llm
    rid,            \* per thread: the number of the request it serves
    calls,          \* per thread: the agent calls made, with their arguments
    attempts,       \* per thread: the keys of the generation calls issued
    marked,         \* per thread: the keys this run marked exhausted
    outcome,        \* per thread: what the last request ended with
    asked,          \* per thread: the symptoms field of the request body
    returned,       \* user_id -> number of runs that returned a result
    usersFile,      \* storage/users.json
    nreg,           \* registrations received so far
    regpc,          \* per thread: where its registration stands
    regArgs,        \* per thread: create_user's arguments
    regUsers,       \* per thread: create_user's local list users
    regOut,         \* per thread: what the last registration ended with
    created,        \* username -> number of create_user calls that returned True
    parseIn, parseOut,   \* output recovery applied to one returned text
    tableIn, tableOut    \* the rendered summary of one set of stage outputs

poolVars == <<exhausted, cursor>>
runVars == <<pc, args, results, history, synth_llm, synth_key, rid, calls,
             attempts, marked, outcome>>
fnVars == <<parseIn, parseOut, tableIn, tableOut>>
userVars == <<usersFile, nreg, regpc, regArgs, regUsers, regOut, created>>
vars == <<exhausted, cursor, memory, historyLog, nreq, pc, args, results,
          history, synth_llm, synth_key, rid, calls, attempts,
          marked, outcome, asked, returned, parseIn, parseOut, tableIn,
          tableOut, usersFile, nreg, regpc, regArgs, regUsers, regOut,
          created>>

NoArgs == [symptoms |-> <<>>, medical_report |-> None, user_id |-> "guest"]
NoResults == [symptom |-> None, lifestyle |-> None, diet |-> None, fitness |-> None]
NoOutputs == [symptom_analysis |-> <<>>, lifestyle |-> <<>>, diet |-> <<>>,
              fitness |-> <<>>]
Pending == <<"Pending">>
NoOutcome == [none |-> TRUE]
\* the request was answered with orchestrate's output (the record saved)
Returned == [returned |-> TRUE]

InitServer ==
    /\ exhausted = {}
    /\ cursor = 1
    /\ memory = <<>>
    /\ historyLog = [u \in Users |-> <<>>]
    /\ nreq = 0
    /\ pc = [r \in Runs |-> "idle"]
    /\ args = [r \in Runs |-> NoArgs]
    /\ results = [r \in Runs |-> NoResults]
    /\ history = [r \in Runs |-> <<>>]
    /\ synth_llm = [r \in Runs |-> 0]
    /\ synth_key = [r \in Runs |-> 0]
    /\ rid = [r \in Runs |-> 0]
    /\ calls = [r \in Runs |-> <<>>]
    /\ attempts = [r \in Runs |-> <<>>]
    /\ marked = [r \in Runs |-> {}]
    /\ outcome = [r \in Runs |-> NoOutcome]
    /\ asked = [r \in Runs |-> Absent]
    /\ returned = [u \in Users |-> 0]
    /\ usersFile = NoFile
    /\ nreg = 0
    /\ regpc = [r \in Runs |-> "idle"]
    /\ regArgs = [r \in Runs |-> NoRegArgs]
    /\ regUsers = [r \in Runs |-> <<>>]
    /\ regOut = [r \in Runs |-> NoOutcome]
    /\ created = [n \in UserNames |-> 0]

Init ==
    /\ InitServer
    /\ parseIn = <<>>
    /\ parseOut = NoOutcome
    /\ tableIn = NoOutputs
    /\ tableOut = Pending

\* ------------------------------------------------------------------------
\* Request handlers: health_assist and recommendations_only
\* ------------------------------------------------------------------------
InputError == [error |-> "InputError", status |-> 400]
NotHealthQuery == [error |-> "NotHealthQuery", status |-> 400]

\* the handler answers without calling orchestrate
Reject(r, err) ==
    /\ nreq' = nreq + 1
    /\ rid' = [rid EXCEPT ![r] = nreq + 1]
    /\ attempts' = [attempts EXCEPT ![r] = <<>>]
    /\ marked' = [marked EXCEPT ![r] = {}]
    /\ outcome' = [outcome EXCEPT ![r] = err]
    /\ UNCHANGED <<poolVars, memory, historyLog, pc, args, results, history,
                   synth_llm, synth_key, calls, fnVars, userVars, returned>>

\* orchestrate, lines 57-60: reset the shared memory, then the first stage
orchestrate(r, symptoms, medical_report, user_id) ==
    /\ nreq' = nreq + 1
    /\ memory' = reset_memory(memory)
    /\ rid' = [rid EXCEPT ![r] = nreq + 1]
    /\ args' = [args EXCEPT ![r] = [symptoms |-> symptoms,
                                     medical_report |-> medical_report,
                                     user_id |-> user_id]]
    /\ results' = [results EXCEPT ![r] = NoResults]
    /\ calls' = [calls EXCEPT ![r] = <<>>]
    /\ attempts' = [attempts EXCEPT ![r] = <<>>]
    /\ marked' = [marked EXCEPT ![r] = {}]
    /\ outcome' = [outcome EXCEPT ![r] = NoOutcome]
    /\ pc' = [pc EXCEPT ![r] = "symptom"]
    /\ UNCHANGED <<poolVars, historyLog, history, synth_llm, synth_key,
                   fnVars, userVars, returned>>

\* the server hands a request to a free handler thread; which one makes no
\* difference, so it is the first
Accepts(r) == pc[r] = "idle" /\ \A q \in 1..(r - 1) : pc[q] # "idle"

health_assist(r, data) ==
    /\ Accepts(r)
    /\ nreq < MaxRequests
    /\ asked' = [asked EXCEPT ![r] = data.symptoms]
    /\ IF data.symptoms = Absent
       THEN Reject(r, InputError)
       ELSE LET symptoms == Strip(data.symptoms) IN
            IF ~_is_health_query(symptoms)
            THEN Reject(r, NotHealthQuery)
            ELSE orchestrate(r, symptoms, FieldOr(data.medical_report, None),
                             UserOr(data.user_id, "guest"))

recommendations_only(r, data) ==
    /\ Accepts(r)
    /\ nreq < MaxRequests
    /\ asked' = [asked EXCEPT ![r] = data.symptoms]
    /\ LET symptoms == Strip(FieldOr(data.symptoms, <<>>)) IN
       IF symptoms = <<>>
       THEN Reject(r, InputError)
       ELSE IF ~_is_health_query(symptoms)
       THEN Reject(r, NotHealthQuery)
       ELSE orchestrate(r, symptoms, FieldOr(data.medical_report, <<>>),
                        UserOr(data.user_id, "guest"))

\* ------------------------------------------------------------------------
\* orchestrate: how a run ends
\* ------------------------------------------------------------------------
\* the locals are gone when orchestrate returns or raises
DropLocals(r) ==
    /\ pc' = [pc EXCEPT ![r] = "idle"]
    /\ args' = [args EXCEPT ![r] = NoArgs]
    /\ results' = [results EXCEPT ![r] = NoResults]
    /\ history' = [history EXCEPT ![r] = <<>>]
    /\ synth_llm' = [synth_llm EXCEPT ![r] = 0]
    /\ synth_key' = [synth_key EXCEPT ![r] = 0]
    /\ calls' = [calls EXCEPT ![r] = <<>>]

\* an exception leaves orchestrate: the request ends with an error
Raise(r, err) ==
    /\ outcome' = [outcome EXCEPT ![r] = err]
    /\ DropLocals(r)

\* ------------------------------------------------------------------------
\* orchestrate, lines 62-79: the four stages.  A step of a run is the code
\* between two awaited calls: it starts when the awaited call returns or
\* raises and ends where the next call is awaited.
\* ------------------------------------------------------------------------
AgentError == [error |-> "AgentError"]
SynthError == [error |-> "SynthError"]

\* the arguments orchestrate passes to each agent
SymptomArgs(r) == [symptoms |-> args[r].symptoms]
LifestyleArgs(r) == [symptoms |-> args[r].symptoms]
\* DietArgs that passes the symptom stage's text as lifestyle_notes
DietArgsSymptomNotes(r) == [symptoms |-> args[r].symptoms,
                            report |-> args[r].medical_report,
                            lifestyle_notes |-> results[r].symptom]
DietArgs(r) == [symptoms |-> args[r].symptoms,
                report |-> args[r].medical_report,
                lifestyle_notes |-> results[r].lifestyle]
FitnessArgs(r) == [symptoms |-> args[r].symptoms,
                   diet_notes |-> results[r].diet]

\* the awaited agent call returns: the agent has recorded its turn in the
\* memory, its text is the stage result
AgentReturns(r, agent, callArgs) ==
    LET text == AgentText(agent, rid[r]) IN
    /\ results' = [results EXCEPT ![r][agent] = text]
    /\ memory' = save_turn(memory, agent, text, rid[r])
    /\ calls' = [calls EXCEPT ![r] = Append(@, [agent |-> agent, args |-> callArgs])]

\* AgentRaises whose failure is taken for a quota failure: the next key of
\* the pool is marked exhausted
AgentRaisesAndMarks(r) ==
    /\ Raise(r, AgentError)
    /\ exhausted' = mark_key_quota_exceeded(exhausted, Candidate(cursor, 0))
    /\ UNCHANGED <<cursor, memory, historyLog, nreq, rid, attempts, marked,
                   fnVars, userVars, asked, returned>>

\* the awaited agent call raises: nothing catches it
AgentRaises(r) ==
    /\ Raise(r, AgentError)
    /\ UNCHANGED <<poolVars, memory, historyLog, nreq, rid, attempts, marked,
                   fnVars, userVars, asked, returned>>

\* a stage that is followed by another stage
Stage(r, agent, callArgs, next) ==
    /\ pc[r] = agent
    /\ \/ /\ AgentReturns(r, agent, callArgs)
          /\ pc' = [pc EXCEPT ![r] = next]
          /\ UNCHANGED <<poolVars, historyLog, nreq, args, history, synth_llm,
                         synth_key, rid, attempts, marked,
                         outcome, fnVars, userVars, asked, returned>>
       \/ AgentRaises(r)

symptom_agent(r) == Stage(r, "symptom", SymptomArgs(r), "lifestyle")
\* lifestyle_agent after which orchestrate goes on with the fitness stage
lifestyle_agent_then_fitness(r) ==
    Stage(r, "lifestyle", LifestyleArgs(r), "fitness")
lifestyle_agent(r) == Stage(r, "lifestyle", LifestyleArgs(r), "diet")
diet_agent(r) == Stage(r, "diet", DietArgs(r), "fitness")

\* ------------------------------------------------------------------------
\* orchestrate, lines 82-124: the synthesizer call and its one retry
\* ------------------------------------------------------------------------
\* _make_synth_llm_with_key that builds the llm with the first configured key
\* instead of the key the pool handed out
_make_synth_llm_fixed_key(cur, exh) ==
    LET k == get_next_key(cur, exh) IN
    IF IsError(k) THEN k
    ELSE [llm |-> 1, key |-> k.key, cursor |-> k.cursor]

\* _make_synth_llm_with_key: the llm is built with the key the pool hands out
_make_synth_llm_with_key(cur, exh) ==
    LET k == get_next_key(cur, exh) IN
    IF IsError(k) THEN k
    ELSE [llm |-> k.key, key |-> k.key, cursor |-> k.cursor]

\* the pool has a key to hand out
PoolHasKey(cur, exh) == ~IsError(_make_synth_llm_with_key(cur, exh))

\* synth_llm, synth_key = _make_synth_llm_with_key(), then the awaited
\* synth_llm.ainvoke(synth_messages) is issued; the pool's failure leaves
\* orchestrate.  exh is the exhausted set at the call.
MakeAndInvoke(r, exh, next) ==
    LET made == _make_synth_llm_with_key(cursor, exh) IN
    IF IsError(made)
    THEN /\ Raise(r, made)
         /\ UNCHANGED <<cursor, attempts>>
    ELSE /\ synth_llm' = [synth_llm EXCEPT ![r] = made.llm]
         /\ synth_key' = [synth_key EXCEPT ![r] = made.key]
         /\ cursor' = made.cursor
         /\ attempts' = [attempts EXCEPT ![r] = Append(@, made.llm)]
         /\ pc' = [pc EXCEPT ![r] = next]
         /\ UNCHANGED outcome

\* lines 76-119: the fitness agent returns, the history is read from the
\* memory, the llm is made and the first generation call is issued
fitness_agent(r) ==
    /\ pc[r] = "fitness"
    /\ \/ /\ MakeAndInvoke(r, exhausted, "invoke")
          /\ IF PoolHasKey(cursor, exhausted)
             THEN /\ AgentReturns(r, "fitness", FitnessArgs(r))
                  /\ history' = [history EXCEPT ![r] = memory']
                  /\ UNCHANGED args
             ELSE memory' = save_turn(memory, "fitness",
                                      AgentText("fitness", rid[r]), rid[r])
          /\ UNCHANGED <<exhausted, historyLog, nreq, rid,
                         marked, fnVars, userVars, asked, returned>>
       \/ AgentRaises(r)

\* ------------------------------------------------------------------------
\* orchestrate, lines 126-158: parse, build the output, save, return
\* ------------------------------------------------------------------------
\* SaveOutput that replaces the user's history by the new record
SaveOutputOverwrite(r, output) ==
    [historyLog EXCEPT ![args[r].user_id] = <<output>>]

\* line 157: save_history(user_id, output)
SaveOutput(r, output) == save_history(historyLog, args[r].user_id, output)

\* Finish that saves to the history before it looks at the parsed value, so
\* that a run that ends with the error of the recovery has saved a record
FinishSavingFirst(r, content) ==
    LET output == BuildOutput(args[r].user_id, args[r].symptoms, results[r],
                              content) IN
    /\ historyLog' = SaveOutput(r, output)
    /\ IF IsError(output)
       THEN /\ Raise(r, output)
            /\ UNCHANGED returned
       ELSE /\ returned' = [returned EXCEPT ![args[r].user_id] = @ + 1]
            /\ outcome' = [outcome EXCEPT ![r] = Returned]
            /\ DropLocals(r)
    /\ UNCHANGED <<poolVars, memory, nreq, rid, attempts, marked, fnVars,
                   userVars, asked>>

\* the generation call returned content
Finish(r, content) ==
    LET output == BuildOutput(args[r].user_id, args[r].symptoms, results[r],
                              content) IN
    /\ IF IsError(output)
       THEN /\ Raise(r, output)
            /\ UNCHANGED <<historyLog, returned>>
       ELSE /\ historyLog' = SaveOutput(r, output)
            /\ returned' = [returned EXCEPT ![args[r].user_id] = @ + 1]
            /\ outcome' = [outcome EXCEPT ![r] = Returned]
            /\ DropLocals(r)
    /\ UNCHANGED <<poolVars, memory, nreq, rid, attempts, marked, fnVars,
                   userVars, asked>>

\* ExceptRotate that does not mark the failed key
ExceptRotateNoMark(r) ==
    /\ MakeAndInvoke(r, exhausted, "reinvoke")
    /\ IF PoolHasKey(cursor, exhausted)
       THEN UNCHANGED <<args, results, history, calls>>
       ELSE TRUE
    /\ UNCHANGED <<exhausted, marked, memory, historyLog, nreq, rid, fnVars,
                   userVars, asked, returned>>

\* lines 120-124: the handler of the first attempt's exception marks the
\* key, makes a new llm and issues the retry
ExceptRotate(r) ==
    /\ exhausted' = mark_key_quota_exceeded(exhausted, synth_key[r])
    /\ marked' = [marked EXCEPT ![r] = @ \cup {synth_key[r]}]
    /\ MakeAndInvoke(r, exhausted', "reinvoke")
    /\ IF PoolHasKey(cursor, exhausted')
       THEN UNCHANGED <<args, results, history, calls>>
       ELSE TRUE
    /\ UNCHANGED <<memory, historyLog, nreq, rid, fnVars, userVars, asked,
                   returned>>

\* line 119: the first attempt returns or raises
ainvoke(r) ==
    /\ pc[r] = "invoke"
    /\ \/ \E content \in SynthTexts : Finish(r, content)
       \/ ExceptRotate(r)

\* except_ainvoke that marks the key of the failed retry as well
except_ainvoke_marks(r) ==
    /\ pc[r] = "reinvoke"
    /\ \/ \E content \in SynthTexts : Finish(r, content)
       \/ /\ Raise(r, SynthError)
          /\ exhausted' = mark_key_quota_exceeded(exhausted, synth_key[r])
          /\ marked' = [marked EXCEPT ![r] = @ \cup {synth_key[r]}]
          /\ UNCHANGED <<cursor, memory, historyLog, nreq, rid, attempts,
                         fnVars, userVars, asked, returned>>

\* except_ainvoke that rotates and retries again when the retry raises
except_ainvoke_loop(r) ==
    /\ pc[r] = "reinvoke"
    /\ \/ \E content \in SynthTexts : Finish(r, content)
       \/ ExceptRotate(r)

\* line 124: the retry returns or raises; its exception leaves orchestrate
except_ainvoke(r) ==
    /\ pc[r] = "reinvoke"
    /\ \/ \E content \in SynthTexts : Finish(r, content)
       \/ /\ Raise(r, SynthError)
          /\ UNCHANGED <<poolVars, memory, historyLog, nreq, rid, attempts,
                         marked, fnVars, userVars, asked, returned>>

\* ------------------------------------------------------------------------
\* The server: handler threads run concurrently
\* ------------------------------------------------------------------------
Next ==
    \/ \E r \in Runs, data \in RequestData : health_assist(r, data)
    \/ \E r \in Runs, data \in RequestData : recommendations_only(r, data)
    \/ \E r \in Runs : symptom_agent(r)
    \/ \E r \in Runs : lifestyle_agent(r)
    \/ \E r \in Runs : diet_agent(r)
    \/ \E r \in Runs : fitness_agent(r)
    \/ \E r \in Runs : ainvoke(r)
    \/ \E r \in Runs : except_ainvoke(r)

Spec == Init /\ [][Next]_vars

\* ------------------------------------------------------------------------
\* Registration: register (app.py) and create_user.  A step is the code up
\* to and including one operation on the file: the read of _load_users, the
\* open of _save_users, its dump and close.
\* ------------------------------------------------------------------------
RegAccepts(t) == regpc[t] = "idle" /\ \A q \in 1..(t - 1) : regpc[q] # "idle"

\* the registration ends: create_user's locals are gone
RegisterReturns(t, out) ==
    /\ regOut' = [regOut EXCEPT ![t] = out]
    /\ regpc' = [regpc EXCEPT ![t] = "idle"]
    /\ regArgs' = [regArgs EXCEPT ![t] = NoRegArgs]
    /\ regUsers' = [regUsers EXCEPT ![t] = <<>>]

serverVars == <<poolVars, memory, historyLog, nreq, runVars, asked, returned,
                fnVars>>

\* register, lines 75-82, and create_user, line 35
register(t, data) ==
    /\ RegAccepts(t)
    /\ nreg < MaxRegistrations
    /\ nreg' = nreg + 1
    /\ LET username == Strip(FieldOr(data.username, <<>>))
           password == Strip(FieldOr(data.password, <<>>))
           loaded == _load_users(usersFile)
       IN
       IF username = <<>> \/ password = <<>>
       THEN RegisterReturns(t, [status |-> 400])
       ELSE IF IsError(loaded)
       THEN RegisterReturns(t, loaded)
       ELSE /\ regArgs' = [regArgs EXCEPT ![t] = [username |-> username,
                                                   password |-> password]]
            /\ regUsers' = [regUsers EXCEPT ![t] = loaded.users]
            /\ regpc' = [regpc EXCEPT ![t] = "loaded"]
            /\ regOut' = [regOut EXCEPT ![t] = NoOutcome]
    /\ UNCHANGED <<usersFile, created, serverVars>>

\* create_user, lines 36-39, up to the open in _save_users; register's 409
create_user(t) ==
    /\ regpc[t] = "loaded"
    /\ IF HasUser(regUsers[t], regArgs[t].username)
       THEN /\ RegisterReturns(t, [status |-> 409])
            /\ UNCHANGED usersFile
       ELSE /\ regUsers' = [regUsers EXCEPT ![t] = Append(@, regArgs[t])]
            /\ usersFile' = OpenForWriting(usersFile)
            /\ regpc' = [regpc EXCEPT ![t] = "saving"]
            /\ UNCHANGED <<regArgs, regOut>>
    /\ UNCHANGED <<nreg, created, serverVars>>

\* _save_users, line 23, create_user's return True and register's 200
_save_users(t) ==
    /\ regpc[t] = "saving"
    /\ usersFile' = Dump(usersFile, regUsers[t])
    /\ created' = [created EXCEPT ![regArgs[t].username] = @ + 1]
    /\ RegisterReturns(t, [status |-> 200, user_id |-> regArgs[t].username])
    /\ UNCHANGED <<nreg, serverVars>>

NextUsers ==
    \/ \E t \in Runs, data \in RegisterData : register(t, data)
    \/ \E t \in Runs : create_user(t)
    \/ \E t \in Runs : _save_users(t)

SpecUsers == Init /\ [][NextUsers]_vars

\* ------------------------------------------------------------------------
\* Output recovery on its own: orchestrate's lines 126-155 applied to every
\* text the synthesizer can return, up to MaxTextLen symbols
\* ------------------------------------------------------------------------
TextAlphabet == {" ", "FENCE", "a", "x", "OBJ", "OBJG", "OBJ0", "LIST", "STR",
                 "NUM", "NULL"}

TextsUpTo(alphabet, n) == UNION {[1..k -> alphabet] : k \in 0..n}

SampleResults == [symptom |-> <<"x">>, lifestyle |-> <<"x">>, diet |-> <<"x">>,
                  fitness |-> <<"x">>]

InitParse ==
    /\ InitServer
    /\ parseIn \in TextsUpTo(TextAlphabet, MaxTextLen)
    /\ parseOut = NoOutcome
    /\ tableIn = NoOutputs
    /\ tableOut = Pending

Recover ==
    /\ parseOut = NoOutcome
    /\ parseOut' = BuildOutput("guest", <<"fever">>, SampleResults, parseIn)
    /\ UNCHANGED <<poolVars, memory, historyLog, nreq, runVars, asked,
                   returned, userVars, parseIn, tableIn, tableOut>>

SpecParse == InitParse /\ [][Recover]_vars

\* ------------------------------------------------------------------------
\* The rendered summary on its own: _build_markdown_table applied to every
\* combination of four stage outputs of up to MaxOutLen symbols
\* ------------------------------------------------------------------------
OutAlphabet == {"x", " "}
StageOutputs == TextsUpTo(OutAlphabet, MaxOutLen)

InitTable ==
    /\ InitServer
    /\ parseIn = <<>>
    /\ parseOut = NoOutcome
    /\ tableIn \in [symptom_analysis : StageOutputs, lifestyle : StageOutputs,
                    diet : StageOutputs, fitness : StageOutputs]
    /\ tableOut = Pending

Render ==
    /\ tableOut = Pending
    /\ tableOut' = _build_markdown_table(tableIn)
    /\ UNCHANGED <<poolVars, memory, historyLog, nreq, runVars, asked,
                   returned, userVars, parseIn, parseOut, tableIn>>

SpecTable == InitTable /\ [][Render]_vars

\* ========================================================================
\* Properties
\* ========================================================================
Terminated(r) == pc[r] = "idle" /\ outcome[r] # NoOutcome
AtSynthesizer(r) == pc[r] \in {"invoke", "reinvoke"}

\* C1 (as stated): the generation call is attempted at most twice in a run,
\* and a run whose first attempt failed has, when it ends, marked the first
\* credential exhausted and issued exactly one retry.
C1_RetryAlwaysIssued ==
    \A r \in Runs :
        /\ Len(attempts[r]) <= 2
        /\ (Terminated(r) /\ marked[r] # {}) =>
               /\ attempts[r][1] \in exhausted
               /\ Len(attempts[r]) = 2

\* C1 (amended): the generation call is attempted at most twice in a run; a
\* failed first attempt marks exactly its own credential exhausted; the run
\* then ends either having issued exactly one retry or, when no credential
\* could be acquired for the retry, with the pool-exhausted error and no
\* retry; a second attempt happens only after such a mark, and a run that
\* ends with the synthesizer's error made exactly two attempts.
C1_AtMostOneRetry ==
    \A r \in Runs :
        /\ Len(attempts[r]) <= 2
        /\ marked[r] # {} =>
               /\ marked[r] = {attempts[r][1]}
               /\ attempts[r][1] \in exhausted
        /\ (Terminated(r) /\ marked[r] # {}) =>
               \/ Len(attempts[r]) = 2
               \/ (Len(attempts[r]) = 1 /\ outcome[r] = PoolExhausted)
        /\ Len(attempts[r]) = 2 => marked[r] # {}
        /\ (Terminated(r) /\ outcome[r] = SynthError) => Len(attempts[r]) = 2

\* a run ended after two failed attempts
C1_Witness ==
    \E r \in Runs :
        Terminated(r) /\ outcome[r] = SynthError /\ Len(attempts[r]) = 2

\* C2: the history a run's synthesizer reads holds turns of that run only,
\* and every turn that run's stages wrote is still in it (no other run's
\* reset cleared it).
C2_RunScopedMemory ==
    \A r \in Runs :
        AtSynthesizer(r) =>
            /\ \A i \in 1..Len(history[r]) : history[r][i].by = rid[r]
            /\ \A agent \in {"symptom", "lifestyle", "diet", "fitness"} :
                   \E i \in 1..Len(history[r]) :
                       history[r][i] = Turn(agent, results[r][agent], rid[r])

\* C3: at the synthesizer, the history read is exactly this run's four stage
\* turns in the order symptom, lifestyle, diet, fitness.
C3_ExactTrace ==
    \A r \in Runs :
        AtSynthesizer(r) =>
            history[r] = << Turn("symptom", results[r].symptom, rid[r]),
                            Turn("lifestyle", results[r].lifestyle, rid[r]),
                            Turn("diet", results[r].diet, rid[r]),
                            Turn("fitness", results[r].fitness, rid[r]) >>

\* C4: no request ends with an error raised by the recovery of the
\* synthesizer's output: whatever text a successful call returned, the run
\* returns a result.
C4_MalformedNeverRaises ==
    \A r \in Runs : outcome[r] # AttributeError

\* C5: output recovery (SpecParse)
ParseFails == json_loads(CleanRaw(parseIn)).kind = "JSONDecodeError"
Recovered == parseOut # NoOutcome

\* C5 (as stated): when the returned text does not parse, the result's
\* synthesized_guidance is the entire returned text and its recommendations
\* is the empty list.
C5_GuidanceIsRawText ==
    (Recovered /\ ParseFails) =>
        /\ ~IsError(parseOut)
        /\ parseOut.synthesized_guidance = parseIn
        /\ parseOut.recommendations = <<>>

\* C5 (amended): when the cleaned text does not parse as JSON, the result's
\* synthesized_guidance is the returned text after cleaning (surrounding
\* whitespace stripped and, if it then starts with a code fence, that fence
\* with its language tag and the fence at the end removed), and its
\* recommendations is the empty list; for a text without surrounding
\* whitespace and without a leading fence that is the entire returned text.
C5_GuidanceIsCleanedText ==
    (Recovered /\ ParseFails) =>
        /\ ~IsError(parseOut)
        /\ parseOut.synthesized_guidance = CleanRaw(parseIn)
        /\ parseOut.recommendations = <<>>
        /\ (parseIn = Strip(parseIn) /\ ~StartsWithFence(parseIn)) =>
               parseOut.synthesized_guidance = parseIn

\* an unparsable text with whitespace around it went through recovery
C5_Witness ==
    /\ Recovered
    /\ ParseFails
    /\ parseIn # Strip(parseIn)
    /\ parseOut.synthesized_guidance # <<>>

\* C6: within a run the symptom and lifestyle agents get the query only, the
\* diet agent gets the query, the report and the text the lifestyle agent
\* returned in this run, the fitness agent gets the query and the text the
\* diet agent returned in this run.
C6_StageInputs ==
    \A r \in Runs :
        \A i \in 1..Len(calls[r]) :
            LET c == calls[r][i] IN
            CASE c.agent \in {"symptom", "lifestyle"} ->
                     c.args = [symptoms |-> args[r].symptoms]
              [] c.agent = "diet" ->
                     /\ c.args.symptoms = args[r].symptoms
                     /\ c.args.report = args[r].medical_report
                     /\ c.args.lifestyle_notes = AgentText("lifestyle", rid[r])
                     /\ c.args.lifestyle_notes = results[r].lifestyle
                     /\ DOMAIN c.args = {"symptoms", "report", "lifestyle_notes"}
              [] c.agent = "fitness" ->
                     /\ c.args.symptoms = args[r].symptoms
                     /\ c.args.diet_notes = AgentText("diet", rid[r])
                     /\ c.args.diet_notes = results[r].diet
                     /\ DOMAIN c.args = {"symptoms", "diet_notes"}

\* a run has called all four agents
C6_Witness ==
    \E r \in Runs : Len(calls[r]) = 4 /\ calls[r][4].agent = "fitness"

\* C7: a step in which a run acquires a credential for the synthesizer
\* (after the fitness stage, or in the handler of the first failure) fails
\* with pool-exhausted exactly when every key is exhausted at that moment,
\* and otherwise issues the call with a key that is not exhausted.
Acquires(r) ==
    \/ pc[r] = "fitness" /\ pc'[r] # "fitness" /\ outcome'[r] # AgentError
    \/ pc[r] = "invoke" /\ marked'[r] # marked[r]

C7_AcquireNeverExhausted ==
    [][\A r \in Runs :
          Acquires(r) =>
              IF Keys \subseteq exhausted'
              THEN pc'[r] = "idle" /\ outcome'[r] = PoolExhausted
              ELSE /\ pc'[r] \in {"invoke", "reinvoke"}
                   /\ synth_llm'[r] \in Keys \ exhausted'
                   /\ attempts'[r] = Append(attempts[r], synth_llm'[r])]_vars

\* a retry is in flight with the one key that is left
C7_Witness ==
    \E r \in Runs :
        /\ pc[r] = "reinvoke"
        /\ Cardinality(exhausted) = NumKeys - 1
        /\ synth_llm[r] \notin exhausted

\* C8: the retry is never issued with the key of the failed first attempt,
\* and that key is exhausted by the time the retry is issued.
C8_RetryUsesOtherKey ==
    \A r \in Runs :
        Len(attempts[r]) = 2 =>
            /\ attempts[r][2] # attempts[r][1]
            /\ attempts[r][1] \in exhausted

\* a retry has been issued
C8_Witness ==
    \E r \in Runs : pc[r] = "reinvoke" /\ Len(attempts[r]) = 2

\* C9 (SpecTable): the rendered summary has the headings of exactly the
\* stages with a non-empty output, in the order symptom, lifestyle, diet,
\* fitness; every heading but the first comes after exactly one blank line;
\* nowhere are there two blank lines in a row.
HeadingOf == [symptom_analysis |-> "**Symptom agent**",
              lifestyle |-> "**Lifestyle agent**",
              diet |-> "**Diet agent**",
              fitness |-> "**Fitness agent**"]
StageOrder == <<"symptom_analysis", "lifestyle", "diet", "fitness">>
IsHeading(c) == c \in {HeadingOf[k] : k \in DOMAIN HeadingOf}

RECURSIVE ExpectedHeadings(_, _)
ExpectedHeadings(out, i) ==
    IF i > Len(StageOrder) THEN <<>>
    ELSE (IF out[StageOrder[i]] = <<>> THEN <<>> ELSE <<HeadingOf[StageOrder[i]]>>)
             \o ExpectedHeadings(out, i + 1)

TwoBlankLines(t) ==
    \E i \in 1..(Len(t) - 2) : t[i] = "\n" /\ t[i + 1] = "\n" /\ t[i + 2] = "\n"

C9_RenderedSummary ==
    tableOut # Pending =>
        /\ SelectSeq(tableOut, IsHeading) = ExpectedHeadings(tableIn, 1)
        /\ \A i \in 2..Len(tableOut) :
               IsHeading(tableOut[i]) =>
                   /\ i > 3
                   /\ tableOut[i - 1] = "\n"
                   /\ tableOut[i - 2] = "\n"
                   /\ tableOut[i - 3] # "\n"
        /\ ~TwoBlankLines(tableOut)

\* C10: a step in which a run returns a result appends exactly that result
\* at the end of its user's history and leaves the other users' histories
\* alone; no other step changes any history.
Returns(r) == AtSynthesizer(r) /\ pc'[r] = "idle" /\ ~IsError(outcome'[r])

C10_HistoryAppendOnly ==
    [][/\ \A r \in Runs :
              Returns(r) =>
                  /\ Len(historyLog'[args[r].user_id]) =
                         Len(historyLog[args[r].user_id]) + 1
                  /\ SubSeq(historyLog'[args[r].user_id], 1,
                            Len(historyLog[args[r].user_id])) =
                         historyLog[args[r].user_id]
                  /\ LET rec == historyLog'[args[r].user_id]
                                    [Len(historyLog'[args[r].user_id])] IN
                     /\ rec.user_id = args[r].user_id
                     /\ rec.query = args[r].symptoms
                     /\ rec.symptom_analysis = results[r].symptom
                     /\ rec.lifestyle = results[r].lifestyle
                     /\ rec.diet = results[r].diet
                     /\ rec.fitness = results[r].fitness
                  /\ \A u \in Users \ {args[r].user_id} :
                         historyLog'[u] = historyLog[u]
       /\ (\A r \in Runs : ~Returns(r)) => historyLog' = historyLog]_vars

\* a user has two records, of two different requests, the older one first
C10_Witness ==
    \E u \in Users :
        /\ Len(historyLog[u]) = 2
        /\ historyLog[u][1].symptom_analysis # historyLog[u][2].symptom_analysis

\* C11 (SpecParse): the returned text is an object wrapped in a code fence:
\* a fence, a language tag of zero or more letters, whitespace, the
\* object, whitespace, a fence (whitespace may surround the whole).
FencedObject(t, obj) ==
    \E i, j, k \in 1..Len(t) :
        /\ i < j /\ j < k
        /\ t[i] = Fence /\ t[j] = obj /\ t[k] = Fence
        /\ \A n \in 1..(i - 1) : t[n] \in Ws
        /\ \A n \in (k + 1)..Len(t) : t[n] \in Ws
        /\ \A n \in (j + 1)..(k - 1) : t[n] \in Ws
        /\ \E m \in i..(j - 1) :
               /\ \A n \in (i + 1)..m : t[n] \in Letters
               /\ \A n \in (m + 1)..(j - 1) : t[n] \in Ws

\* C11: for such a text the fences are stripped before parsing (what is
\* parsed is the object alone) and the result's synthesized_guidance and
\* recommendations are the fields of the object, the recommendations in the
\* object's order; a field the object does not have is empty.
C11_FencedObjectRecovered ==
    \A obj \in {"OBJ", "OBJG", "OBJ0"} :
        (Recovered /\ FencedObject(parseIn, obj)) =>
            /\ CleanRaw(parseIn) = <<obj>>
            /\ ~IsError(parseOut)
            /\ parseOut.synthesized_guidance =
                   DictGet(AtomValue(obj).val, "synthesized_guidance", <<>>)
            /\ parseOut.recommendations =
                   DictGet(AtomValue(obj).val, "recommendations", <<>>)
            /\ obj = "OBJ" =>
                   /\ parseOut.synthesized_guidance = GuidanceText
                   /\ parseOut.recommendations = RecList

\* a fenced object with a language tag went through recovery
C11_Witness ==
    /\ Recovered
    /\ FencedObject(parseIn, "OBJ")
    /\ parseIn[2] \in Letters
    /\ parseOut.recommendations = RecList

\* C12: the order of a run's external calls
PipelineOrder == <<"symptom", "lifestyle", "diet", "fitness">>
StageIndex(agent) == CHOOSE i \in 1..Len(PipelineOrder) : PipelineOrder[i] = agent
\* the agents of the calls that have returned, in the order of their return
StagesOf(cs) == [i \in 1..Len(cs) |-> cs[i].agent]

\* C12: after every step, a run that awaits a stage call has got the
\* responses of exactly the stages before it, in pipeline order, and has
\* issued no generation call; a run that awaits a generation call has got
\* the responses of all four stages in order; a response is always that of
\* the one call awaited; a generation call is issued only when all four
\* stages have returned; and the run's history is assigned only in the step
\* in which the fitness stage returns, where it is read from the memory
\* (the retry reuses it), and when the run ends.
C12_SequentialCalls ==
    [][\A r \in Runs :
          /\ pc'[r] \in Range(PipelineOrder) =>
                 /\ StagesOf(calls'[r]) =
                        SubSeq(PipelineOrder, 1, StageIndex(pc'[r]) - 1)
                 /\ attempts'[r] = <<>>
          /\ pc'[r] \in {"invoke", "reinvoke"} =>
                 /\ StagesOf(calls'[r]) = PipelineOrder
                 /\ \A agent \in Range(PipelineOrder) : results'[r][agent] # None
          /\ Len(calls'[r]) > Len(calls[r]) =>
                 /\ pc[r] \in Range(PipelineOrder)
                 /\ StagesOf(calls'[r]) = Append(StagesOf(calls[r]), pc[r])
          /\ Len(attempts'[r]) > Len(attempts[r]) =>
                 StagesOf(calls'[r]) = PipelineOrder
          /\ history'[r] # history[r] =>
                 \/ pc[r] = "fitness" /\ Len(calls'[r]) = 4
                                      /\ history'[r] = memory'
                 \/ pc'[r] = "idle" /\ history'[r] = <<>>]_vars

\* a run's retry is in flight: four stages returned, the history read once
C12_Witness ==
    \E r \in Runs :
        /\ pc[r] = "reinvoke"
        /\ StagesOf(calls[r]) = PipelineOrder
        /\ Len(history[r]) >= 1
        /\ Len(attempts[r]) = 2

\* C13: a run that found no credential, at the first acquire or at the
\* acquire for the retry, has ended with the pool-exhausted condition; it
\* issued no generation call after that acquire (none at all, or only the
\* failed first one whose key it marked); and the caller is answered with
\* the service-unavailable status, 503.
C13_PoolExhaustionSurfaced ==
    \A r \in Runs :
        outcome[r] = PoolExhausted =>
            /\ pc[r] = "idle"
            /\ Keys \subseteq exhausted
            /\ Len(attempts[r]) = Cardinality(marked[r])
            /\ Len(attempts[r]) <= 1
            /\ ResponseStatus(outcome[r]) = 503

\* C14: the step in which a stage call of a run fails ends the run with that
\* error, while the run awaited one of the four stages; the step marks no
\* credential, moves no cursor, adds no history record, and the run has
\* issued no generation call; as long as the thread serves no new request,
\* the ended run makes no further call (no retry, no later stage, no
\* generation call).
C14_StageFailureIsFatal ==
    [][\A r \in Runs :
          /\ (outcome'[r] = AgentError /\ outcome[r] # AgentError) =>
                 /\ pc[r] \in Range(PipelineOrder)
                 /\ pc'[r] = "idle"
                 /\ exhausted' = exhausted
                 /\ cursor' = cursor
                 /\ historyLog' = historyLog
                 /\ attempts'[r] = <<>>
                 /\ marked'[r] = {}
          /\ (outcome[r] = AgentError /\ rid'[r] = rid[r]) =>
                 /\ pc'[r] = "idle"
                 /\ outcome'[r] = AgentError
                 /\ calls'[r] = calls[r]
                 /\ attempts'[r] = attempts[r]
                 /\ marked'[r] = marked[r]]_vars

\* a run ended with a stage's error after stages had returned
C14_Witness ==
    \E r \in Runs :
        /\ Terminated(r)
        /\ outcome[r] = AgentError
        /\ attempts[r] = <<>>
        /\ Len(memory) >= 2

\* C15: a step in which a handler of /health-assist or /recommendations
\* takes a request whose symptoms field is missing or empty (also: empty
\* once stripped) answers it with an error of status 400 and starts no run:
\* no thread changes its position, so no stage call is made; no credential
\* is acquired or marked; the memory is not reset; no history record is
\* added.
C15_InvalidInputRejected ==
    [][\A r \in Runs :
          (/\ rid'[r] # rid[r]
           /\ (asked'[r] = Absent \/ Strip(asked'[r]) = <<>>)) =>
              /\ IsError(outcome'[r])
              /\ ResponseStatus(outcome'[r]) = 400
              /\ pc' = pc
              /\ calls' = calls
              /\ attempts'[r] = <<>>
              /\ exhausted' = exhausted
              /\ cursor' = cursor
              /\ memory' = memory
              /\ historyLog' = historyLog
              /\ returned' = returned]_vars

\* a request with an empty symptoms field was rejected while another
\* thread's run had turns in the memory
C15_Witness ==
    \E r, q \in Runs :
        /\ r # q
        /\ asked[r] = <<>>
        /\ IsError(outcome[r])
        /\ ResponseStatus(outcome[r]) = 400
        /\ pc[q] \in {"lifestyle", "diet", "fitness"}
        /\ Len(memory) >= 1

\* C16: no step takes a credential out of the exhausted set, and a step in
\* which a run issues a generation call issues it with a credential that is
\* not in the exhausted set, neither before nor after the step: an
\* exhausted credential stays exhausted and is never handed out again, in
\* this run or a later one.
C16_ExhaustionIsSticky ==
    [][/\ exhausted \subseteq exhausted'
       /\ \A r \in Runs :
              Len(attempts'[r]) > Len(attempts[r]) =>
                  /\ attempts'[r][Len(attempts'[r])] \notin exhausted
                  /\ attempts'[r][Len(attempts'[r])] \notin exhausted']_vars

\* the run of a later request has a call in flight with an available key
\* while a key that an earlier, ended run marked is still exhausted
C16_Witness ==
    \E r \in Runs :
        /\ pc[r] = "invoke"
        /\ rid[r] >= 2
        /\ marked[r] = {}
        /\ exhausted # {}
        /\ synth_key[r] \notin exhausted
        /\ \A q \in Runs \ {r} : pc[q] = "idle"

\* C17: two runs never race on one credential: every generation call in
\* flight uses a credential that is not exhausted.  A run's own mark never
\* breaks this (the run replaces its key right after marking it), so a
\* state that breaks it is one in which a run issued a call with a
\* credential another run had marked, or a run marked the credential on
\* which another run has a call in flight.
C17_NoRaceOnCredential ==
    \A r \in Runs :
        AtSynthesizer(r) => synth_key[r] \notin exhausted

\* C18: a run marks at most one credential.  A run marks only in the step
\* in which its first generation call fails, and what it marks is the key of
\* that call; the step in which the first call returns marks nothing; the
\* step in which the retry returns or fails marks nothing and leaves the
\* exhausted set as it is, so the key of a failed retry is not marked by
\* the run; and the exhausted set grows by nothing but the key of a failed
\* first call.
C18_MarksOnlyFirstKey ==
    [][/\ \A r \in Runs :
              /\ Cardinality(marked'[r]) <= 1
              /\ (marked'[r] # marked[r] /\ rid'[r] = rid[r]) =>
                     /\ pc[r] = "invoke"
                     /\ Len(attempts[r]) = 1
                     /\ marked'[r] = {attempts[r][1]}
                     /\ attempts[r][1] \in exhausted'
              /\ (pc[r] = "invoke" /\ pc'[r] = "idle"
                                   /\ outcome'[r] # PoolExhausted) =>
                     /\ exhausted' = exhausted
                     /\ marked'[r] = {}
              /\ (pc[r] = "reinvoke" /\ pc'[r] = "idle") =>
                     /\ exhausted' = exhausted
                     /\ marked'[r] = {attempts[r][1]}
                     /\ attempts[r][2] \notin marked'[r]
       /\ exhausted' # exhausted =>
              \E r \in Runs :
                  /\ pc[r] = "invoke"
                  /\ exhausted' = exhausted \cup {attempts[r][1]}]_vars

\* a run ended after two failed calls and the key of its retry is available
C18_Witness ==
    \E r \in Runs :
        /\ Terminated(r)
        /\ outcome[r] = SynthError
        /\ marked[r] = {attempts[r][1]}
        /\ attempts[r][2] \notin exhausted

\* C19: a step in which a run ends with an error (a stage's, the pool's, the
\* synthesizer's, the recovery's) leaves every history as it is; the count
\* of returned runs of a user grows exactly in the steps in which a run of
\* that user returns a result; and after every step every user's history
\* has as many records as that user's runs have returned results.
EndsWithError(r) == pc[r] # "idle" /\ pc'[r] = "idle" /\ IsError(outcome'[r])

C19_HistoryCountsReturnedRuns ==
    [][/\ \A u \in Users : Len(historyLog'[u]) = returned'[u]
       /\ \A r \in Runs :
              /\ EndsWithError(r) =>
                     historyLog' = historyLog /\ returned' = returned
              /\ Returns(r) =>
                     returned' = [returned EXCEPT ![args[r].user_id] = @ + 1]
       /\ returned' # returned => \E r \in Runs : Returns(r)]_vars

\* a user has one record after two requests: one run returned a result,
\* the other ended with an error
C19_Witness ==
    /\ nreq = 2
    /\ \A r \in Runs : pc[r] = "idle"
    /\ \E u \in Users : returned[u] = 1 /\ Len(historyLog[u]) = 1
    /\ \A u \in Users : returned[u] <= 1 /\ (returned[u] = 1 => u = "guest")
    /\ \E r \in Runs : IsError(outcome[r]) /\ ResponseStatus(outcome[r]) = 500

\* C20 (SpecUsers): after every step the stored list has no two entries
\* with one username, and no username has been created (create_user
\* returning True) more than once; and the step of a create_user that finds
\* the username in the list it loaded returns False (register answers 409)
\* and leaves the file as it is.
UniqueUsernames(users) ==
    \A i, j \in 1..Len(users) :
        i # j => users[i].username # users[j].username

C20_UniqueUsernames ==
    [][/\ UniqueUsernames(usersFile'.users)
       /\ \A n \in UserNames : created'[n] <= 1
       /\ \A t \in Runs :
              (/\ regpc[t] = "loaded"
               /\ regpc'[t] # "loaded"
               /\ HasUser(regUsers[t], regArgs[t].username)) =>
                  /\ regOut'[t] = [status |-> 409]
                  /\ regpc'[t] = "idle"
                  /\ usersFile' = usersFile
                  /\ created' = created]_vars

====
